---- MODULE Spec2Model ----
(***************************************************************************)
(* Pomodoro timer store (src/src/utils/celebration.ts, lines 55-366) and   *)
(* its timer worker (src/unnamed/part_000).                                *)
(*                                                                         *)
(* The main thread and the worker are two single-threaded event loops.     *)
(* Every handler runs to completion, so every handler is one action.  The  *)
(* two loops talk through two FIFO message channels (postMessage).         *)
(*                                                                         *)
(* The wall clock `now` is in milliseconds and only takes values from the  *)
(* finite set Instants: a few half-second steps after the first page load  *)
(* and after a break's duration has elapsed.  Timers may fire late (a      *)
(* throttled background tab) but never early.                              *)
(*                                                                         *)
(* JavaScript null, a missing localStorage key and the number 0 are all    *)
(* tested by truthiness only in this code, so they share the value Null.   *)
(*                                                                         *)
(* A page load starts from the module's initial values and runs            *)
(* initializeStore once (its isInitialized test).  The worker's error      *)
(* event is the failure of its script to load: nothing in the worker's     *)
(* code can throw.  HEARTBEAT, PING and PONG carry no state (the main      *)
(* thread ignores them) and are left out.                                  *)
(***************************************************************************)
EXTENDS Integers, Sequences, FiniteSets, TLC

\* ------------------------------------------------------------------ bounds
MaxQueue == 2        \* capacity of each message channel
MaxCountdowns == 2   \* countdowns started over one behaviour
MaxSessions == 1     \* cap on completedFocusSessions in Spec
MaxCadence == 5      \* cap on completedFocusSessions in CadenceSpec
MaxTimeouts == 2     \* fallback timeouts pending at once
NearSteps == 1       \* half-second clock steps modelled after each base instant
MaxIntervals == 2    \* handles of the worker's setInterval timers

\* --------------------------------------------------------------- constants
Null == 0
Second == 1000
HalfSecond == Second \div 2
PageLoad == 2000 * Second        \* clock value at the first page load
NoMode == "none"                 \* no (valid) mode string in storage

Modes == {"focus", "break", "longBreak"}

MODE_DURATIONS(m) ==
  CASE m = "focus" -> 25 * 60
    [] m = "break" -> 5 * 60
    [] m = "longBreak" -> 15 * 60

Max(a, b) == IF a >= b THEN a ELSE b

\* Math.ceil(ms / 1000) for ms >= 0
CeilSeconds(ms) == (ms + Second - 1) \div Second
\* Math.floor(ms / 1000)
FloorSeconds(ms) == ms \div Second

\* Clock values the model visits: around the first page load and around the
\* end of a break started then.
BaseInstants == {PageLoad, PageLoad + MODE_DURATIONS("break") * Second}
Instants == {b + k * HalfSecond : b \in BaseInstants, k \in 0..NearSteps}

VARIABLES
  \* main thread: the store
  mode, time, isActive, hasFinished, completedFocusSessions,
  startTimestamp, initialDuration, timerWorker, workerSupported,
  isInitialized,
  timeouts,          \* pending setTimeout(updateTimerDisplay) callbacks: handle -> due time, Null if not pending
  countdownTimeout,  \* the handle last returned by setTimeout, Null if none
  localStorage,      \* the five STORAGE_KEYS
  \* worker thread
  workerState,       \* "none" | "loading" | "running" | "failed"
  timerId,           \* the handle of the worker's setInterval timer, Null if none
  intervals,         \* live setInterval timers: handle -> due time, Null if not live
  startTime, duration, isRunning,
  \* channels
  toWorker, toMain,
  \* environment
  now,
  \* history
  countdown,         \* number of the store's current countdown, 0 if none
  workerCountdown,   \* number of the countdown the worker is timing
  started,           \* countdowns started so far
  cancelled,         \* countdowns cancelled while Running by resetCountdown / setMode
  celebrations,      \* countdown number -> calls of celebrate() (capped at 2)
  running,           \* how the store's current countdown entered Running, NoRun if none
  finishes,          \* countdown number -> TIMER_FINISHED messages the worker posted (capped at 2)
  lastOp             \* the main-thread handler that ran last, and its argument

storeVars == <<mode, time, isActive, hasFinished, completedFocusSessions,
               startTimestamp, initialDuration, timerWorker, workerSupported,
               isInitialized, timeouts, countdownTimeout, localStorage>>
workerVars == <<workerState, timerId, intervals, startTime, duration, isRunning,
                finishes>>
historyVars == <<countdown, workerCountdown, started, cancelled, celebrations, running>>
vars == <<storeVars, workerVars, toWorker, toMain, now, historyVars, lastOp>>

\* ----------------------------------------------------------------- storage
\* localStorage.removeItem on every key
EmptyStorage ==
  [startTimestamp |-> Null, initialDuration |-> Null, mode |-> NoMode,
   isActive |-> FALSE, completedSessions |-> 0]

\* The five saveToStorage calls of startCountdown and of the beforeunload handler
Snapshot(dur) ==
  [startTimestamp |-> startTimestamp, initialDuration |-> dur,
   mode |-> mode, isActive |-> TRUE,
   completedSessions |-> completedFocusSessions]

\* What an earlier page session may have left in localStorage.
InitialStorages ==
  { EmptyStorage,
    \* a break started 1.5 s before the page was reloaded
    [startTimestamp |-> PageLoad - Second - HalfSecond, initialDuration |-> 300,
     mode |-> "break", isActive |-> TRUE, completedSessions |-> 1],
    \* a focus session that ran out while the page was closed
    [startTimestamp |-> PageLoad - 1600 * Second, initialDuration |-> 1500,
     mode |-> "focus", isActive |-> TRUE, completedSessions |-> 0],
    \* what startCountdown itself writes: no start timestamp
    [startTimestamp |-> Null, initialDuration |-> 900,
     mode |-> "longBreak", isActive |-> TRUE, completedSessions |-> 0],
    \* a mode only
    [startTimestamp |-> Null, initialDuration |-> Null,
     mode |-> "break", isActive |-> FALSE, completedSessions |-> 0],
    \* an active flag and a start timestamp, no duration, not a mode
    [startTimestamp |-> PageLoad - Second, initialDuration |-> Null,
     mode |-> "nap", isActive |-> TRUE, completedSessions |-> 0] }

\* ---------------------------------------------------------------- messages
StartMsg(d, c) == [type |-> "START_TIMER", duration |-> d, cd |-> c]
StopMsg == [type |-> "STOP_TIMER", duration |-> 0, cd |-> 0]
StatusMsg == [type |-> "GET_STATUS", duration |-> 0, cd |-> 0]
TickMsg(s, c) == [type |-> "TIMER_TICK", remainingSeconds |-> s, cd |-> c]
FinishedMsg(c) == [type |-> "TIMER_FINISHED", remainingSeconds |-> 0, cd |-> c]
StoppedMsg(c) == [type |-> "TIMER_STOPPED", remainingSeconds |-> 0, cd |-> c]

UsesWorker == workerSupported /\ timerWorker
CanPost == Len(toWorker) < MaxQueue

\* ----------------------------------------------------------------- history
NoTimeouts == [h \in 1..MaxTimeouts |-> Null]
NoIntervals == [h \in 1..MaxIntervals |-> Null]
FreeHandles(tos) == {h \in 1..MaxTimeouts : tos[h] = Null}
Celebrated(c) == [celebrations EXCEPT ![c] = IF @ < 2 THEN @ + 1 ELSE @]
Op(n, a) == [name |-> n, arg |-> a]
\* The countdown entered Running at clock value since with secs seconds to go;
\* fromIdle: by startCountdown called in Idle.
Run(since, secs, fromIdle) == [since |-> since, secs |-> secs, fromIdle |-> fromIdle]
NoRun == Run(Null, 0, FALSE)

Init ==
  /\ mode = "focus"
  /\ time = MODE_DURATIONS("focus")
  /\ isActive = FALSE
  /\ hasFinished = FALSE
  /\ completedFocusSessions = 0
  /\ startTimestamp = Null
  /\ initialDuration = 0
  /\ timerWorker = FALSE
  /\ workerSupported = FALSE
  /\ isInitialized = FALSE
  /\ timeouts = NoTimeouts
  /\ countdownTimeout = Null
  /\ localStorage \in InitialStorages
  /\ workerState = "none"
  /\ timerId = Null
  /\ intervals = NoIntervals
  /\ startTime = Null
  /\ duration = Null
  /\ isRunning = FALSE
  /\ toWorker = <<>>
  /\ toMain = <<>>
  /\ now = PageLoad
  /\ countdown = 0
  /\ workerCountdown = 0
  /\ started = 0
  /\ cancelled = {}
  /\ celebrations = [c \in 0..MaxCountdowns |-> 0]
  /\ running = NoRun
  /\ finishes = [c \in 0..MaxCountdowns |-> 0]
  /\ lastOp = Op("load", "")

\* ------------------------------------------------------------- main thread
\* calculateRemainingTime that rounds the elapsed time up
calculateRemainingTimeRoundsUp(ts, dur) ==
  IF ts = Null \/ dur = 0
    THEN 0
    ELSE Max(0, dur - CeilSeconds(now - ts))

calculateRemainingTime(ts, dur) ==
  IF ts = Null \/ dur = 0
    THEN 0
    ELSE Max(0, dur - FloorSeconds(now - ts))

\* updateTimerDisplay past its isActive test, called with start timestamp ts,
\* duration dur, storage st and pending timeouts tos.
\* Sets time, isActive, hasFinished, localStorage, timeouts, countdownTimeout
\* and celebrations.
UpdateTimerDisplay(ts, dur, st, tos, c) ==
  LET remaining == calculateRemainingTime(ts, dur)
      h == CHOOSE x \in FreeHandles(tos) : \A y \in FreeHandles(tos) : x <= y
  IN /\ time' = remaining
     /\ IF remaining <= 0
          THEN /\ celebrations' = Celebrated(c)
               /\ hasFinished' = TRUE
               /\ isActive' = FALSE
               /\ localStorage' = EmptyStorage
               /\ timeouts' = tos
               /\ UNCHANGED countdownTimeout
          ELSE /\ FreeHandles(tos) # {}
               /\ timeouts' = [tos EXCEPT ![h] = now + Second]
               /\ countdownTimeout' = h
               /\ isActive' = TRUE
               /\ localStorage' = st
               /\ UNCHANGED <<hasFinished, celebrations>>

startCountdown ==
  /\ isInitialized
  /\ started < MaxCountdowns
  /\ initialDuration' = time
  /\ started' = started + 1
  /\ countdown' = started + 1
  /\ running' = Run(now, time, ~isActive /\ ~hasFinished)
  /\ lastOp' = Op("startCountdown", "")
  /\ IF UsesWorker
       THEN /\ CanPost
            /\ localStorage' = Snapshot(time)
            /\ isActive' = TRUE
            /\ toWorker' = Append(toWorker, StartMsg(time, started + 1))
            /\ UNCHANGED <<time, hasFinished, timeouts, countdownTimeout, celebrations>>
       ELSE /\ UpdateTimerDisplay(startTimestamp, time, Snapshot(time), timeouts, started + 1)
            /\ UNCHANGED toWorker
  /\ UNCHANGED <<mode, completedFocusSessions, startTimestamp, timerWorker,
                 workerSupported, isInitialized, workerVars, toMain, now,
                 workerCountdown, cancelled>>

\* The part resetCountdown and setMode share: clearTimeout, forget the start,
\* clearStorage, STOP_TIMER, isActive and hasFinished off.
Cancel ==
  /\ isInitialized
  /\ UsesWorker => CanPost
  /\ timeouts' = IF countdownTimeout = Null THEN timeouts
                 ELSE [timeouts EXCEPT ![countdownTimeout] = Null]
  /\ startTimestamp' = Null
  /\ initialDuration' = 0
  /\ localStorage' = EmptyStorage
  /\ toWorker' = IF UsesWorker THEN Append(toWorker, StopMsg) ELSE toWorker
  /\ isActive' = FALSE
  /\ hasFinished' = FALSE
  /\ countdown' = 0
  /\ cancelled' = IF isActive THEN cancelled \cup {countdown} ELSE cancelled
  /\ running' = NoRun
  /\ UNCHANGED <<timerWorker, workerSupported, isInitialized, countdownTimeout,
                 workerVars, toMain, now, workerCountdown, started, celebrations>>

\* resetCountdown that also forgets the completed sessions
resetCountdownClearsSessions ==
  /\ Cancel
  /\ time' = MODE_DURATIONS(mode)
  /\ lastOp' = Op("resetCountdown", "")
  /\ completedFocusSessions' = 0
  /\ UNCHANGED mode

resetCountdown ==
  /\ Cancel
  /\ time' = MODE_DURATIONS(mode)
  /\ lastOp' = Op("resetCountdown", "")
  /\ UNCHANGED <<mode, completedFocusSessions>>

\* setMode as nextMode calls it
setMode(newMode) ==
  /\ Cancel
  /\ mode' = newMode
  /\ time' = MODE_DURATIONS(newMode)

\* setMode called from the mode buttons
SetModeCall(newMode) ==
  /\ setMode(newMode)
  /\ lastOp' = Op("setMode", newMode)
  /\ UNCHANGED completedFocusSessions

\* nextMode that tests the count before the increment
nextModeTestsOldCount ==
  /\ lastOp' = Op("nextMode", "")
  /\ IF mode = "focus"
       THEN /\ completedFocusSessions' = completedFocusSessions + 1
            /\ IF completedFocusSessions % 4 = 0
                 THEN setMode("longBreak")
                 ELSE setMode("break")
       ELSE /\ setMode("focus")
            /\ UNCHANGED completedFocusSessions

nextMode ==
  /\ lastOp' = Op("nextMode", "")
  /\ IF mode = "focus"
       THEN LET newCompletedSessions == completedFocusSessions + 1
            IN /\ completedFocusSessions' = newCompletedSessions
               /\ IF newCompletedSessions % 4 = 0
                    THEN setMode("longBreak")
                    ELSE setMode("break")
       ELSE /\ setMode("focus")
            /\ UNCHANGED completedFocusSessions

\* handleVisibilityChange without its test of document.hidden
handleVisibilityChangeIgnoresHidden(hidden) ==
  /\ isInitialized
  /\ lastOp' = Op("handleVisibilityChange", "")
  /\ IF isActive
       THEN IF UsesWorker
              THEN /\ CanPost
                   /\ toWorker' = Append(toWorker, StatusMsg)
                   /\ UNCHANGED <<time, isActive, hasFinished, localStorage, celebrations>>
              ELSE LET remaining == calculateRemainingTime(startTimestamp, initialDuration)
                   IN /\ time' = remaining
                      /\ IF remaining <= 0
                           THEN /\ celebrations' = Celebrated(countdown)
                                /\ hasFinished' = TRUE
                                /\ isActive' = FALSE
                                /\ localStorage' = EmptyStorage
                           ELSE UNCHANGED <<isActive, hasFinished, localStorage, celebrations>>
                      /\ UNCHANGED toWorker
       ELSE UNCHANGED <<time, isActive, hasFinished, localStorage, celebrations, toWorker>>
  /\ UNCHANGED <<mode, completedFocusSessions, startTimestamp, initialDuration,
                 timerWorker, workerSupported, isInitialized, timeouts,
                 countdownTimeout, workerVars, toMain, now, countdown,
                 workerCountdown, started, cancelled, running>>

\* handleVisibilityChange; hidden is document.hidden
handleVisibilityChange(hidden) ==
  /\ isInitialized
  /\ lastOp' = Op("handleVisibilityChange", "")
  /\ IF ~hidden /\ isActive
       THEN IF UsesWorker
              THEN /\ CanPost
                   /\ toWorker' = Append(toWorker, StatusMsg)
                   /\ UNCHANGED <<time, isActive, hasFinished, localStorage, celebrations>>
              ELSE LET remaining == calculateRemainingTime(startTimestamp, initialDuration)
                   IN /\ time' = remaining
                      /\ IF remaining <= 0
                           THEN /\ celebrations' = Celebrated(countdown)
                                /\ hasFinished' = TRUE
                                /\ isActive' = FALSE
                                /\ localStorage' = EmptyStorage
                           ELSE UNCHANGED <<isActive, hasFinished, localStorage, celebrations>>
                      /\ UNCHANGED toWorker
       ELSE UNCHANGED <<time, isActive, hasFinished, localStorage, celebrations, toWorker>>
  /\ UNCHANGED <<mode, completedFocusSessions, startTimestamp, initialDuration,
                 timerWorker, workerSupported, isInitialized, timeouts,
                 countdownTimeout, workerVars, toMain, now, countdown,
                 workerCountdown, started, cancelled, running>>

\* A pending setTimeout(updateTimerDisplay, 1000) fires.
TimeoutFires(h) ==
  /\ timeouts[h] # Null
  /\ now >= timeouts[h]
  /\ lastOp' = Op("updateTimerDisplay", "")
  /\ IF ~isActive
       THEN /\ timeouts' = [timeouts EXCEPT ![h] = Null]
            /\ UNCHANGED <<time, isActive, hasFinished, localStorage,
                           countdownTimeout, celebrations>>
       ELSE UpdateTimerDisplay(startTimestamp, initialDuration, localStorage,
                               [timeouts EXCEPT ![h] = Null], countdown)
  /\ UNCHANGED <<mode, completedFocusSessions, startTimestamp, initialDuration,
                 timerWorker, workerSupported, isInitialized, workerVars,
                 toWorker, toMain, now, countdown, workerCountdown, started,
                 cancelled, running>>

\* timerWorker.onmessage on the oldest message from the worker
onmessage ==
  /\ toMain # <<>>
  /\ toMain' = Tail(toMain)
  /\ lastOp' = Op("onmessage", "")
  /\ LET msg == Head(toMain)
     IN CASE msg.type = "TIMER_TICK" ->
               /\ time' = msg.remainingSeconds
               /\ UNCHANGED <<isActive, hasFinished, localStorage, celebrations>>
          [] msg.type = "TIMER_FINISHED" ->
               /\ time' = 0
               /\ hasFinished' = TRUE
               /\ isActive' = FALSE
               /\ localStorage' = EmptyStorage
               /\ celebrations' = Celebrated(msg.cd)
          [] OTHER ->
               UNCHANGED <<time, isActive, hasFinished, localStorage, celebrations>>
  /\ UNCHANGED <<mode, completedFocusSessions, startTimestamp, initialDuration,
                 timerWorker, workerSupported, isInitialized, timeouts,
                 countdownTimeout, workerVars, toWorker, now, countdown,
                 workerCountdown, started, cancelled, running>>

\* timerWorker.onerror: the worker script failed; it never runs again.
onerror ==
  /\ workerState = "loading"
  /\ workerState' = "failed"
  /\ workerSupported' = FALSE
  /\ timerWorker' = FALSE
  /\ lastOp' = Op("onerror", "")
  /\ UNCHANGED <<mode, time, isActive, hasFinished, completedFocusSessions,
                 startTimestamp, initialDuration, isInitialized, timeouts,
                 countdownTimeout, localStorage, timerId, intervals, startTime,
                 duration, isRunning, finishes, toWorker, toMain, now, historyVars>>

\* The test with the saved active flag alone
HasActiveSnapshotFlagOnly(st) == st.isActive

\* The test of initializeFromStorage for a countdown to resume
HasActiveSnapshot(st) ==
  st.isActive /\ st.startTimestamp # Null /\ st.initialDuration # Null

\* initializeStore on page load: initializeWorker, then initializeFromStorage.
\* hasWorker: the environment has Worker and its constructor does not throw.
initializeFromStorage(hasWorker) ==
  /\ ~isInitialized
  /\ isInitialized' = TRUE
  /\ timerWorker' = hasWorker
  /\ workerSupported' = hasWorker
  /\ workerState' = IF hasWorker THEN "loading" ELSE "none"
  /\ lastOp' = Op("initializeFromStorage", "")
  /\ LET savedMode == localStorage.mode
         savedIsActive == localStorage.isActive
         savedStartTimestamp == localStorage.startTimestamp
         savedInitialDuration == localStorage.initialDuration
         savedCompletedSessions == localStorage.completedSessions
         remaining == calculateRemainingTime(savedStartTimestamp, savedInitialDuration)
     IN /\ completedFocusSessions' = savedCompletedSessions
        /\ mode' = IF savedMode \in Modes THEN savedMode ELSE mode
        /\ IF HasActiveSnapshot(localStorage)
             THEN /\ startTimestamp' = savedStartTimestamp
                  /\ initialDuration' = savedInitialDuration
                  /\ started < MaxCountdowns
                  /\ started' = started + 1
                  /\ countdown' = started + 1
                  /\ running' = IF remaining > 0 THEN Run(now, remaining, FALSE) ELSE NoRun
                  /\ IF remaining > 0
                       THEN IF hasWorker
                              THEN /\ time' = remaining
                                   /\ isActive' = TRUE
                                   /\ toWorker' = Append(toWorker, StartMsg(remaining, started + 1))
                                   /\ UNCHANGED <<hasFinished, localStorage, timeouts,
                                                  countdownTimeout, celebrations>>
                              ELSE /\ UpdateTimerDisplay(savedStartTimestamp, savedInitialDuration,
                                                         localStorage, timeouts, started + 1)
                                   /\ UNCHANGED toWorker
                       ELSE /\ time' = 0
                            /\ hasFinished' = TRUE
                            /\ isActive' = FALSE
                            /\ localStorage' = EmptyStorage
                            /\ celebrations' = Celebrated(started + 1)
                            /\ UNCHANGED <<toWorker, timeouts, countdownTimeout>>
             ELSE /\ time' = IF savedMode \in Modes THEN MODE_DURATIONS(savedMode) ELSE time
                  /\ UNCHANGED <<isActive, hasFinished, startTimestamp, initialDuration,
                                 localStorage, toWorker, timeouts, countdownTimeout,
                                 started, countdown, celebrations>>
                  /\ running' = NoRun
  /\ UNCHANGED <<timerId, intervals, startTime, duration, isRunning, finishes,
                 toMain, now, workerCountdown, cancelled>>

\* The page is closed or reloaded: the beforeunload handler runs, then the
\* module state, the worker, the pending timers and the channels are gone and
\* the next page load starts from the module's initial values.
beforeunload ==
  /\ isInitialized
  /\ localStorage' = IF isActive THEN Snapshot(initialDuration) ELSE localStorage
  /\ mode' = "focus"
  /\ time' = MODE_DURATIONS("focus")
  /\ isActive' = FALSE
  /\ hasFinished' = FALSE
  /\ completedFocusSessions' = 0
  /\ startTimestamp' = Null
  /\ initialDuration' = 0
  /\ timerWorker' = FALSE
  /\ workerSupported' = FALSE
  /\ isInitialized' = FALSE
  /\ timeouts' = NoTimeouts
  /\ countdownTimeout' = Null
  /\ workerState' = "none"
  /\ timerId' = Null
  /\ intervals' = NoIntervals
  /\ startTime' = Null
  /\ duration' = Null
  /\ isRunning' = FALSE
  /\ toWorker' = <<>>
  /\ toMain' = <<>>
  /\ countdown' = 0
  /\ workerCountdown' = 0
  /\ running' = IF isActive THEN running ELSE NoRun
  /\ lastOp' = Op("beforeunload", "")
  /\ UNCHANGED <<now, started, cancelled, celebrations, finishes>>

\* ------------------------------------------------------------------ worker
\* The worker's variables as one record, so that its functions compose.
WorkerRec ==
  [timerId |-> timerId, intervals |-> intervals, startTime |-> startTime,
   duration |-> duration, isRunning |-> isRunning]

\* clearInterval(h) and the handle setInterval returns, on the live timers
clearInterval(live, h) == IF h = Null THEN live ELSE [live EXCEPT ![h] = Null]
NewInterval(live) ==
  IF \E h \in 1..MaxIntervals : live[h] = Null
    THEN CHOOSE h \in 1..MaxIntervals :
           live[h] = Null /\ \A g \in 1..MaxIntervals : live[g] = Null => h <= g
    ELSE MaxIntervals

\* Each worker function maps the worker's state w (timing countdown c) to its
\* new state and the messages it posts, oldest first.

\* stopTimer that keeps startTime and duration
stopTimerKeepsStart(w, c) ==
  [w |-> [w EXCEPT !.intervals = clearInterval(@, w.timerId), !.timerId = Null,
                   !.isRunning = FALSE],
   out |-> <<StoppedMsg(c)>>]

stopTimer(w, c) ==
  [w |-> [w EXCEPT !.intervals = clearInterval(@, w.timerId), !.timerId = Null,
                   !.isRunning = FALSE, !.startTime = Null, !.duration = Null],
   out |-> <<StoppedMsg(c)>>]

\* sendStatus that forgets stopTimer() when the time is up
sendStatusKeepsRunning(w, c) ==
  IF ~w.isRunning \/ w.startTime = Null \/ w.duration = Null
    THEN [w |-> w, out |-> <<>>]
    ELSE LET elapsed == now - w.startTime
             remaining == Max(0, w.duration - elapsed)
             remainingSeconds == CeilSeconds(remaining)
         IN IF remaining <= 0
              THEN [w |-> w, out |-> <<FinishedMsg(c)>>]
              ELSE [w |-> w, out |-> <<TickMsg(remainingSeconds, c)>>]

sendStatus(w, c) ==
  IF ~w.isRunning \/ w.startTime = Null \/ w.duration = Null
    THEN [w |-> w, out |-> <<>>]
    ELSE LET elapsed == now - w.startTime
             remaining == Max(0, w.duration - elapsed)
             remainingSeconds == CeilSeconds(remaining)
         IN IF remaining <= 0
              THEN LET r == stopTimer(w, c)
                   IN [w |-> r.w, out |-> Append(r.out, FinishedMsg(c))]
              ELSE [w |-> w, out |-> <<TickMsg(remainingSeconds, c)>>]

\* startTimer without its clearInterval
startTimerKeepsInterval(w, timerDuration, c) ==
  LET w1 == [w EXCEPT !.startTime = now, !.duration = timerDuration * Second,
                      !.isRunning = TRUE]
      r == sendStatus(w1, c)
      h == NewInterval(r.w.intervals)
  IN [w |-> [r.w EXCEPT !.timerId = h, !.intervals[h] = now + Second],
      out |-> r.out]

startTimer(w, timerDuration, c) ==
  LET w1 == [w EXCEPT !.intervals = clearInterval(@, w.timerId),
                      !.startTime = now, !.duration = timerDuration * Second,
                      !.isRunning = TRUE]
      r == sendStatus(w1, c)
      h == NewInterval(r.w.intervals)
  IN [w |-> [r.w EXCEPT !.timerId = h, !.intervals[h] = now + Second],
      out |-> r.out]

\* The worker moves to r.w and posts r.out.
WorkerDoes(r) ==
  /\ Len(toMain) + Len(r.out) <= MaxQueue
  /\ toMain' = toMain \o r.out
  /\ timerId' = r.w.timerId
  /\ intervals' = r.w.intervals
  /\ startTime' = r.w.startTime
  /\ duration' = r.w.duration
  /\ isRunning' = r.w.isRunning
  /\ finishes' = [c \in 0..MaxCountdowns |->
                    IF \E i \in 1..Len(r.out) : r.out[i] = FinishedMsg(c)
                      THEN IF finishes[c] < 2 THEN finishes[c] + 1 ELSE 2
                      ELSE finishes[c]]

\* The worker script has loaded and starts taking messages.
WorkerLoaded ==
  /\ workerState = "loading"
  /\ workerState' = "running"
  /\ UNCHANGED <<storeVars, timerId, intervals, startTime, duration, isRunning,
                 finishes, toWorker, toMain, now, historyVars, lastOp>>

\* self.onmessage on the oldest message from the main thread
WorkerOnMessage ==
  /\ workerState = "running"
  /\ toWorker # <<>>
  /\ toWorker' = Tail(toWorker)
  /\ LET msg == Head(toWorker)
     IN CASE msg.type = "START_TIMER" ->
               /\ WorkerDoes(startTimer(WorkerRec, msg.duration, msg.cd))
               /\ workerCountdown' = msg.cd
          [] msg.type = "STOP_TIMER" ->
               /\ WorkerDoes(stopTimer(WorkerRec, workerCountdown))
               /\ UNCHANGED workerCountdown
          [] msg.type = "GET_STATUS" ->
               /\ WorkerDoes(sendStatus(WorkerRec, workerCountdown))
               /\ UNCHANGED workerCountdown
  /\ UNCHANGED <<storeVars, workerState, now, countdown, started, cancelled,
                 celebrations, running, lastOp>>

\* The setInterval callback of startTimer for the live timer h; its next run
\* is due a second later.
IntervalFires(h) ==
  /\ workerState = "running"
  /\ intervals[h] # Null
  /\ now >= intervals[h]
  /\ LET w == [WorkerRec EXCEPT !.intervals[h] = now + Second]
     IN WorkerDoes(IF isRunning THEN sendStatus(w, workerCountdown)
                   ELSE [w |-> w, out |-> <<>>])
  /\ UNCHANGED <<storeVars, workerState, toWorker, now, historyVars, lastOp>>

\* ------------------------------------------------------------- environment
AdvanceTime ==
  /\ \E t \in Instants : t > now /\ now' = t
  /\ UNCHANGED <<storeVars, workerVars, toWorker, toMain, historyVars, lastOp>>

\* --------------------------------------------------------------- component
\* getNextModeInfo of CountdownControls that tests the current session count
getNextModeInfoTestsOldCount(currentMode, sessions) ==
  IF currentMode = "focus"
    THEN IF sessions % 4 = 0 THEN "longBreak" ELSE "break"
    ELSE "focus"

\* getNextModeInfo().mode of CountdownControls, for the mode and the session
\* count the component reads from the store
getNextModeInfo(currentMode, sessions) ==
  IF currentMode = "focus"
    THEN LET nextSessions == sessions + 1
         IN IF nextSessions % 4 = 0 THEN "longBreak" ELSE "break"
    ELSE "focus"

Next ==
  \/ \E hasWorker \in BOOLEAN : initializeFromStorage(hasWorker)
  \/ startCountdown
  \/ resetCountdown
  \/ \E newMode \in Modes : SetModeCall(newMode)
  \/ (completedFocusSessions < MaxSessions /\ nextMode)
  \/ \E hidden \in BOOLEAN : handleVisibilityChange(hidden)
  \/ \E h \in 1..MaxTimeouts : TimeoutFires(h)
  \/ onmessage
  \/ onerror
  \/ beforeunload
  \/ WorkerLoaded
  \/ WorkerOnMessage
  \/ \E h \in 1..MaxIntervals : IntervalFires(h)
  \/ AdvanceTime

Spec == Init /\ [][Next]_vars

\* ------------------------------------------------------------------ claims
Countdowns == 1..MaxCountdowns
PendingTimeouts == {h \in 1..MaxTimeouts : timeouts[h] # Null}

\* C1: isActive and hasFinished are never both true once a handler has run
\* to completion, whatever the sequence of store operations, worker messages
\* and fallback timeouts, startCountdown in Finished included.
C1_NeverActiveAndFinished == ~(isActive /\ hasFinished)

\* C2: celebrate() runs at most once for each countdown, and every step that
\* takes the store into Finished runs it exactly once, with the worker and
\* with fallback polling, also when a tick / timeout and a visibility-
\* triggered status check both see zero remaining time.
C2_CelebratedAtMostOnce == \A c \in Countdowns : celebrations[c] <= 1
C2_FinishCelebratesOnce ==
  (hasFinished' /\ (~hasFinished \/ isActive) /\ ~isActive')
    => \E c \in Countdowns :
         /\ celebrations'[c] = celebrations[c] + 1
         /\ \A d \in Countdowns \ {c} : celebrations'[d] = celebrations[d]
C2_ExactlyOnce == []C2_CelebratedAtMostOnce /\ [][C2_FinishCelebratesOnce]_vars

\* C2 witness: the worker's tick found zero and the store finished while a
\* GET_STATUS of a visibility change was still on its way to the worker.
C2_Witness ==
  /\ hasFinished
  /\ ~isActive
  /\ lastOp.name = "onmessage"
  /\ countdown # 0
  /\ celebrations[countdown] = 1
  /\ toWorker # <<>>
  /\ Head(toWorker) = StatusMsg
  /\ ~isRunning

\* C3: a message of a countdown that resetCountdown or setMode cancelled,
\* delivered after the cancellation, changes neither remainingSeconds,
\* isActive, hasFinished nor the persisted snapshot and does not celebrate.
C3_StaleMessageIgnored ==
  [][(onmessage /\ Head(toMain).cd \in cancelled)
       => UNCHANGED <<time, isActive, hasFinished, localStorage, celebrations>>]_vars

\* C4: a countdown started by startCountdown in Idle survives a restart: when
\* the page is torn down while it runs and initializeFromStorage runs e whole
\* seconds after the start, the store is Running again in the same mode with
\* remainingSeconds = initialDuration - e if e < initialDuration, and
\* Finished otherwise.
C4_SurvivesRestart ==
  [][((\E hasWorker \in BOOLEAN : initializeFromStorage(hasWorker)) /\ running.fromIdle)
       => LET e == FloorSeconds(now - running.since)
          IN IF e < running.secs
               THEN /\ isActive' /\ ~hasFinished'
                    /\ mode' = localStorage.mode
                    /\ time' = running.secs - e
               ELSE hasFinished' /\ ~isActive']_vars

\* C5: with fallback polling, every value written to remainingSeconds during a
\* countdown of d seconds started in Idle is d minus the whole seconds elapsed
\* since the start (d first, as the worker's first tick), and the countdown
\* stays Running until that value is 0.
FallbackUpdate ==
  /\ ~UsesWorker
  /\ running'.fromIdle
  /\ startCountdown \/ (isActive /\ \E h \in 1..MaxTimeouts : TimeoutFires(h))
C5_FallbackSequence ==
  [][FallbackUpdate
       => /\ time' = Max(0, running'.secs - FloorSeconds(now - running'.since))
          /\ isActive' = (time' > 0)]_vars

\* C7: while the store stays Running in one countdown, remainingSeconds never
\* increases from one update to the next.
C7_Monotonic ==
  [][(isActive /\ isActive' /\ countdown' = countdown) => time' <= time]_vars

C10_Cadence ==
  [][nextMode
       => IF mode = "focus"
            THEN /\ completedFocusSessions' = completedFocusSessions + 1
                 /\ mode' = IF (completedFocusSessions + 1) % 4 = 0
                              THEN "longBreak" ELSE "break"
            ELSE /\ mode' = "focus"
                 /\ completedFocusSessions' = completedFocusSessions]_vars

\* C10 witness: the fourth focus session has just been left for a long break.
C10_Witness ==
  /\ lastOp.name = "nextMode"
  /\ mode = "longBreak"
  /\ completedFocusSessions = 4
  /\ time = MODE_DURATIONS("longBreak")

\* Sessions and mode changes only: the session count may reach MaxCadence.
CadenceNext ==
  \/ \E hasWorker \in BOOLEAN : initializeFromStorage(hasWorker)
  \/ startCountdown
  \/ (completedFocusSessions < MaxCadence /\ nextMode)
  \/ onmessage
  \/ WorkerLoaded
  \/ WorkerOnMessage
  \/ \E h \in 1..MaxIntervals : IntervalFires(h)
  \/ AdvanceTime

CadenceSpec == Init /\ [][CadenceNext]_vars

\* ---------------------------------------------------------------- liveness
\* Handlers that are ready run before the clock moves on: a message or a due
\* timer waits far less than the half second between two clock values.
ReadyWork ==
  \/ toMain # <<>>
  \/ workerState = "loading"
  \/ workerState = "running" /\ toWorker # <<>>
  \/ workerState = "running" /\ \E h \in 1..MaxIntervals : intervals[h] # Null /\ now >= intervals[h]
  \/ \E h \in 1..MaxTimeouts : timeouts[h] # Null /\ now >= timeouts[h]

PromptAdvanceTime == ~ReadyWork /\ AdvanceTime

AnyTimeoutFires == \E h \in 1..MaxTimeouts : TimeoutFires(h)
AnyIntervalFires == \E h \in 1..MaxIntervals : IntervalFires(h)

\* The user and the page's visibility change only between two bursts of
\* handlers, so they cannot hold the clock back for ever.
FairNext ==
  \/ \E hasWorker \in BOOLEAN : initializeFromStorage(hasWorker)
  \/ (~ReadyWork /\ startCountdown)
  \/ (~ReadyWork /\ resetCountdown)
  \/ (~ReadyWork /\ \E hidden \in BOOLEAN : handleVisibilityChange(hidden))
  \/ AnyTimeoutFires
  \/ onmessage
  \/ onerror
  \/ WorkerLoaded
  \/ WorkerOnMessage
  \/ AnyIntervalFires
  \/ PromptAdvanceTime

\* The event loops run every ready handler, and time passes however often
\* handlers become ready in between; the user's actions and a failure of the
\* worker are not forced.
FairSpec ==
  /\ Init
  /\ [][FairNext]_vars
  /\ WF_vars(AnyTimeoutFires)
  /\ WF_vars(onmessage)
  /\ WF_vars(WorkerLoaded)
  /\ WF_vars(WorkerOnMessage)
  /\ WF_vars(AnyIntervalFires)
  /\ SF_vars(PromptAdvanceTime)

LastBase == PageLoad + MODE_DURATIONS("break") * Second

\* The store is Running in countdown c, which has time left and ends within
\* the modelled clock.
RunningIn(c) ==
  /\ isActive
  /\ countdown = c
  /\ running.secs > 0
  /\ running.since + running.secs * Second <= LastBase

\* C6: under fair scheduling every countdown that enters Running reaches
\* Finished with celebrate() called for it, unless it is cancelled or
\* restarted first; a failure of the worker does not leave it in Running.
C6_EventuallyFinished ==
  \A c \in Countdowns :
    RunningIn(c) ~> (countdown # c \/ (hasFinished /\ ~isActive /\ celebrations[c] = 1))

\* ------------------------------------------------------- claims, continued
\* C11: initializeFromStorage on an active snapshot with start timestamp T0
\* and duration D, run e ms after T0: if floor(e / 1000) >= D the store is
\* Finished (time 0, not active), the snapshot is cleared, celebrate() runs
\* once and no ticker or polling starts; otherwise the store is Running with
\* time = D - floor(e / 1000) and the worker or the polling starts with that
\* remaining time. D = 1500 and e = 1600000 gives Finished.
C11_Rehydration ==
  [][\A hasWorker \in BOOLEAN :
       (/\ initializeFromStorage(hasWorker)
        /\ localStorage.isActive
        /\ localStorage.startTimestamp # Null
        /\ localStorage.initialDuration # Null)
       => LET D == localStorage.initialDuration
              T0 == localStorage.startTimestamp
              e == now - T0
              c == started + 1
          IN /\ IF FloorSeconds(e) >= D
                  THEN /\ time' = 0 /\ ~isActive' /\ hasFinished'
                       /\ localStorage' = EmptyStorage
                       /\ celebrations'[c] = celebrations[c] + 1
                       /\ \A d \in Countdowns \ {c} : celebrations'[d] = celebrations[d]
                       /\ toWorker' = toWorker
                       /\ PendingTimeouts' = {}
                  ELSE /\ isActive' /\ ~hasFinished'
                       /\ time' = D - FloorSeconds(e)
                       /\ celebrations' = celebrations
                       /\ IF hasWorker
                            THEN /\ toWorker' = Append(toWorker, StartMsg(D - FloorSeconds(e), c))
                                 /\ PendingTimeouts' = {}
                            ELSE /\ toWorker' = toWorker
                                 /\ Cardinality(PendingTimeouts') = 1
                                 /\ startTimestamp' = T0
                                 /\ initialDuration' = D
             /\ (D = 1500 /\ e = 1600000) => (hasFinished' /\ ~isActive' /\ time' = 0)]_vars

\* C11 witness: the focus session of 1500 s, 1600 s old, was found expired.
C11_Witness ==
  /\ lastOp.name = "initializeFromStorage"
  /\ hasFinished
  /\ ~isActive
  /\ time = 0
  /\ initialDuration = 1500
  /\ now - startTimestamp >= 1600000
  /\ localStorage = EmptyStorage
  /\ celebrations[countdown] = 1

\* C12: in Idle (neither active nor finished) remainingSeconds is
\* modeDuration(mode); while active it lies in 0..modeDuration(mode).
C12_TimeInRange ==
  /\ (~isActive /\ ~hasFinished) => time = MODE_DURATIONS(mode)
  /\ isActive => (0 <= time /\ time <= MODE_DURATIONS(mode))

\* The messages a step of the worker appends to toMain
Emitted ==
  IF Len(toMain') >= Len(toMain) /\ SubSeq(toMain', 1, Len(toMain)) = toMain
    THEN SubSeq(toMain', Len(toMain) + 1, Len(toMain'))
    ELSE <<>>
IsStatus(m) == m.type \in {"TIMER_TICK", "TIMER_FINISHED"}
LiveIntervals == {h \in 1..MaxIntervals : intervals[h] # Null}
WorkerStopped ==
  /\ timerId = Null
  /\ LiveIntervals = {}
  /\ ~isRunning
  /\ startTime = Null
  /\ duration = Null

\* C13: STOP_TIMER is idempotent in the worker: handled once or twice, and
\* also when no countdown runs, it leaves no interval, isRunning false and
\* startTime / duration cleared; after it the worker posts no TIMER_TICK and
\* no TIMER_FINISHED until the next START_TIMER.
C13_StopIdempotent ==
  /\ [](stopTimer(stopTimer(WorkerRec, workerCountdown).w, workerCountdown).w
          = stopTimer(WorkerRec, workerCountdown).w)
  /\ [][(WorkerOnMessage /\ Head(toWorker) = StopMsg) => WorkerStopped']_vars
  /\ [][(/\ WorkerStopped
         /\ \/ AnyIntervalFires
            \/ (WorkerOnMessage /\ Head(toWorker).type # "START_TIMER"))
        => /\ WorkerStopped'
           /\ SelectSeq(Emitted, IsStatus) = <<>>]_vars

\* C13 witness: two STOP_TIMER in a row were handled after the only countdown.
C13_Witness ==
  /\ started = 1
  /\ workerCountdown = 1
  /\ toMain = <<StoppedMsg(1), StoppedMsg(1)>>
  /\ WorkerStopped

\* Within the modelled clock every due handler runs and time goes on.
TickerFairSpec ==
  /\ Spec
  /\ WF_vars(AdvanceTime)
  /\ WF_vars(onmessage)
  /\ SF_vars(AnyIntervalFires)

\* The worker times countdown c, whose time is up a second before the last
\* base instant, so that its interval runs once more after that.
Timing(c) ==
  /\ workerState = "running"
  /\ isRunning
  /\ workerCountdown = c
  /\ startTime + duration + Second <= LastBase

\* C14: for every START_TIMER the worker handles it posts TIMER_FINISHED at
\* most once, exactly once unless the countdown is stopped or restarted
\* before its time is up, and no TIMER_TICK of that countdown after its
\* TIMER_FINISHED.
C14_FinishedOnce ==
  /\ [](\A c \in Countdowns : finishes[c] <= 1)
  /\ [][\A i \in 1..Len(Emitted) :
          Emitted[i].type = "TIMER_TICK" => finishes[Emitted[i].cd] = 0]_vars
  /\ \A c \in Countdowns : Timing(c) ~> (finishes[c] = 1 \/ ~Timing(c))

\* C15: initializeFromStorage without a complete active snapshot enters Idle
\* in the saved mode if that is a mode, else in focus, with
\* time = modeDuration(mode), starts neither the worker's countdown nor the
\* polling and does not celebrate.
C15_NoSnapshot ==
  [][\A hasWorker \in BOOLEAN :
       (/\ initializeFromStorage(hasWorker)
        /\ ~(/\ localStorage.isActive
             /\ localStorage.startTimestamp # Null
             /\ localStorage.initialDuration # Null))
       => LET m == IF localStorage.mode \in Modes THEN localStorage.mode ELSE "focus"
          IN /\ mode' = m
             /\ time' = MODE_DURATIONS(m)
             /\ ~isActive' /\ ~hasFinished'
             /\ toWorker' = toWorker
             /\ PendingTimeouts' = {}
             /\ LiveIntervals' = {}
             /\ celebrations' = celebrations]_vars

\* C15 witness: a snapshot with the active flag but no duration and no valid
\* mode gave Idle in focus.
C15_Witness ==
  /\ lastOp.name = "initializeFromStorage"
  /\ localStorage.isActive
  /\ localStorage.startTimestamp # Null
  /\ localStorage.initialDuration = Null
  /\ localStorage.mode \notin Modes
  /\ mode = "focus"
  /\ time = MODE_DURATIONS("focus")
  /\ ~isActive
  /\ ~hasFinished

\* C16: once the store is initialized, the persisted active flag is true
\* exactly when isActive is, after every handler.
C16_ActiveFlagPersisted == isInitialized => (localStorage.isActive = isActive)

\* C17: START_TIMER with d > 0 handled while a countdown runs cancels the
\* interval before arming the new one, so that at most one interval is live;
\* the first message after it is TIMER_TICK with d, and every later status
\* is computed from the new start time and duration.
C17_Restart ==
  /\ [](Cardinality(LiveIntervals) <= 1)
  /\ [][(/\ WorkerOnMessage
         /\ Head(toWorker).type = "START_TIMER"
         /\ Head(toWorker).duration > 0)
        => /\ LiveIntervals' = {timerId'}
           /\ intervals'[timerId'] = now + Second
           /\ startTime' = now
           /\ duration' = Head(toWorker).duration * Second
           /\ isRunning'
           /\ Emitted = <<TickMsg(Head(toWorker).duration, Head(toWorker).cd)>>]_vars
  /\ [][(/\ isRunning /\ duration # Null
         /\ \/ AnyIntervalFires
            \/ (WorkerOnMessage /\ Head(toWorker) = StatusMsg))
        => LET left == duration - (now - startTime)
           IN IF left <= 0
                THEN /\ SelectSeq(Emitted, IsStatus) = <<FinishedMsg(workerCountdown)>>
                     /\ WorkerStopped'
                ELSE /\ Emitted = <<TickMsg(CeilSeconds(left), workerCountdown)>>
                     /\ startTime' = startTime
                     /\ duration' = duration]_vars

\* C17 witness: the first ticks of two countdowns are on their way to the main
\* thread, the second START_TIMER having found the first countdown running.
C17_Witness ==
  /\ Len(toMain) = 2
  /\ toMain[1].type = "TIMER_TICK" /\ toMain[1].cd = 1
  /\ toMain[2].type = "TIMER_TICK" /\ toMain[2].cd = 2
  /\ toMain[2].remainingSeconds * Second = duration
  /\ isRunning
  /\ workerCountdown = 2
  /\ Cardinality(LiveIntervals) = 1

C19_Sessions ==
  [][(isInitialized /\ isInitialized')
       => IF nextMode /\ mode = "focus"
            THEN completedFocusSessions' = completedFocusSessions + 1
            ELSE completedFocusSessions' = completedFocusSessions]_vars

\* C19 witness: the first focus session has been counted.
C19_Witness ==
  /\ isInitialized
  /\ lastOp.name = "nextMode"
  /\ mode = "break"
  /\ completedFocusSessions = 1

\* C20: the mode getNextModeInfo announces is the mode nextMode switches to
\* from the same mode and session count.
C20_PreviewMatches ==
  [][nextMode => mode' = getNextModeInfo(mode, completedFocusSessions)]_vars

\* C20 witness: a long break was announced after the fourth focus session and
\* entered.
C20_Witness ==
  /\ lastOp.name = "nextMode"
  /\ completedFocusSessions = 4
  /\ mode = "longBreak"
  /\ getNextModeInfo("focus", completedFocusSessions - 1) = mode
  /\ getNextModeInfo(mode, completedFocusSessions) = "focus"

====
